---- MODULE Spec2Model ----
(***************************************************************************)
(* Model of the dbutil package of interline-io/transitland-dbutil:         *)
(*   - PostgresAdapter construction, DBX, Tx and CopyInsertEnts            *)
(*     (postgres.go), specification Spec; Open, specification SpecOpen;    *)
(*   - PostgresAdapter.InsertEnt, PostgresAdapter.MultiInsertEnts and the  *)
(*     package-level InsertEnt (postgres.go, db.go), specification SpecIns;*)
(*   - FindEnt and UpdateEnt, package-level and adapter methods (db.go,    *)
(*     postgres.go), specification SpecEnt.                                *)
(* An error value is a string; "nil" is Go's nil error.                    *)
(***************************************************************************)
EXTENDS Integers, Sequences, FiniteSets, TLC

VARIABLES
    adapter,   \* the root PostgresAdapter: [DBURL, db]
    pc,        \* "idle" | "running" (inside a Tx callback) | "done"
    stack,     \* active Tx calls, outermost first: [commit]
    trace,     \* Begin, Commit and Rollback calls made so far: [op, depth, ok, val]
    opens,     \* return values of the Open calls made so far
    pools,     \* connection pools created by sqlx.Open so far
    lastret,   \* the Tx call that returned last: [depth, commit, cberr, ret]
    copy,      \* the CopyInsertEnts call that returned last
    ins,       \* SpecIns: the insert call that returned last
    store,     \* SpecIns / SpecEnt: the table, a sequence of rows
    nextId,    \* SpecIns: the table's serial
    ent        \* SpecEnt: the Find / Update call that returned last

vars == <<adapter, pc, stack, trace, opens, pools, lastret, copy, ins, store, nextId, ent>>

Nil == "nil"

\* ---------------------------------------------------------------- bounds
MaxDepth == 3      \* nesting depth of Tx calls
MaxOpens == 4      \* Open calls in one run
MaxCopyEnts == 2   \* records handed to one CopyInsertEnts call

\* ------------------------------------------------------- handles (sqlx.Ext)
\* "nil": no handle; "DB": *sqlx.DB (the pool); "Tx": *sqlx.Tx;
\* "LoggedTx": &QueryLogger{Ext: tx} with tx a live transaction;
\* "LoggedNilTx": &QueryLogger{Ext: tx} with tx a nil *sqlx.Tx.
Handles == {"nil", "DB", "Tx", "LoggedTx"}
URLs == {"", "postgres://db"}

\* NewPostgresAdapterFromDBX
NewPostgresAdapterFromDBX(db) == [DBURL |-> "", db |-> db]

\* &PostgresAdapter{DBURL: url}
NewPostgresAdapter(url) == [DBURL |-> url, db |-> "nil"]

\* PostgresAdapter.DBX
DBX(a) == a.db

\* PostgresAdapter.Open: [ret, db, opened] for the outcomes of sqlx.Open and Ping.
\* The pool sqlx.Open returns is held in a local variable only.
OpenAdapter(a, openOk, pingOk) ==
    IF a.db # "nil" THEN [ret |-> Nil, db |-> a.db, opened |-> FALSE]
    ELSE IF ~openOk THEN [ret |-> "OpenErr", db |-> a.db, opened |-> FALSE]
    ELSE IF ~pingOk THEN [ret |-> "PingErr", db |-> a.db, opened |-> TRUE]
    ELSE [ret |-> Nil, db |-> a.db, opened |-> TRUE]

\* ------------------------------------------------------------------- Tx
\* The type switch of Tx: the transaction the handle already is in, or "nil".
TxOf(db) ==
    CASE db = "Tx" -> "tx"
      [] db = "LoggedTx" -> "tx"
      [] OTHER -> "nil"

\* adapter.db.(canBeginx): *sqlx.DB has Beginx, *sqlx.Tx has not, and the
\* assertion fails on a nil interface.
CanBeginx(db) == db = "DB"

Ev(op, depth, ok, val) == [op |-> op, depth |-> depth, ok |-> ok, val |-> val]

\* Tx up to the callback's invocation, at nesting depth d:
\* [tx, commit, err, evs, adapter2], adapter2 the handle given to the callback.
TxEnterAlwaysBegin(db, d, beginOk) ==
    LET begins == CanBeginx(db) \/ TxOf(db) # "nil"
        tx == IF begins THEN (IF beginOk THEN "tx" ELSE "nil") ELSE TxOf(db)
    IN [tx |-> tx,
        commit |-> begins,
        err |-> IF begins /\ ~beginOk THEN "BeginErr" ELSE Nil,
        evs |-> IF begins THEN <<Ev("Begin", d, beginOk, 0)>> ELSE <<>>,
        adapter2 |-> IF tx = "nil" THEN "LoggedNilTx" ELSE "LoggedTx"]

TxEnter(db, d, beginOk) ==
    LET tx0 == TxOf(db)
        begins == tx0 = "nil" /\ CanBeginx(db)
        tx == IF begins THEN (IF beginOk THEN "tx" ELSE "nil") ELSE tx0
    IN [tx |-> tx,
        commit |-> begins,
        err |-> IF begins /\ ~beginOk THEN "BeginErr" ELSE Nil,
        evs |-> IF begins THEN <<Ev("Begin", d, beginOk, 0)>> ELSE <<>>,
        adapter2 |-> IF tx = "nil" THEN "LoggedNilTx" ELSE "LoggedTx"]

\* Tx from the callback's return err2 on: [ret, evs]. finOk is the outcome of
\* the Rollback or Commit, when one is made.
TxFinishKeepCbErr(commit, d, err2, finOk) ==
    IF err2 # Nil
    THEN IF commit
         THEN [ret |-> err2, evs |-> <<Ev("Rollback", d, finOk, 0)>>]
         ELSE [ret |-> err2, evs |-> <<>>]
    ELSE IF commit
         THEN [ret |-> IF finOk THEN Nil ELSE "CommitErr",
               evs |-> <<Ev("Commit", d, finOk, 0)>>]
         ELSE [ret |-> Nil, evs |-> <<>>]

TxFinish(commit, d, err2, finOk) ==
    IF err2 # Nil
    THEN IF commit
         THEN [ret |-> IF finOk THEN err2 ELSE "RollbackErr",
               evs |-> <<Ev("Rollback", d, finOk, 0)>>]
         ELSE [ret |-> err2, evs |-> <<>>]
    ELSE IF commit
         THEN [ret |-> IF finOk THEN Nil ELSE "CommitErr",
               evs |-> <<Ev("Commit", d, finOk, 0)>>]
         ELSE [ret |-> Nil, evs |-> <<>>]

\* The handle of the adapter a call at the current position is made on: the
\* root adapter's, or the derived adapter's inside a callback.
CurDB == IF stack = <<>> THEN DBX(adapter) ELSE stack[Len(stack)].adapter2

NoRet == [depth |-> 0, commit |-> FALSE, cberr |-> Nil, ret |-> Nil]
NoCopy == [called |-> FALSE]
NoCall == [op |-> "none"]

\* The record lists handed to a bulk call: up to n records told apart by
\* their payload, in ascending or descending payload order.
EntLists(n) ==
    {[i \in 1..k |-> i] : k \in 0..n} \cup {[i \in 1..k |-> k + 1 - i] : k \in 0..n}

\* ------------------------------------------------------- CopyInsertEnts
\* Where a CopyInsertEnts call fails, if anywhere: header derivation, Prepare,
\* the value extraction or the Exec of record i, or the terminating Exec.
NoFail == [kind |-> "none", i |-> 0]
CopyFails(n) ==
    {NoFail}
      \cup {[kind |-> k, i |-> 0] : k \in {"header", "prepare", "term"}}
      \cup {[kind |-> k, i |-> i] : k \in {"vals", "exec"}, i \in 1..n}

\* The loop over the records, from record j on: [err, evs].
RECURSIVE CopyRows(_, _, _, _)
CopyRows(ents, j, d, fail) ==
    IF j > Len(ents) THEN [err |-> Nil, evs |-> <<>>]
    ELSE IF fail.kind = "vals" /\ fail.i = j THEN [err |-> "ValuesErr", evs |-> <<>>]
    ELSE IF fail.kind = "exec" /\ fail.i = j
         THEN [err |-> "ExecErr", evs |-> <<Ev("Row", d, FALSE, ents[j])>>]
    ELSE LET rest == CopyRows(ents, j + 1, d, fail)
         IN [err |-> rest.err, evs |-> <<Ev("Row", d, TRUE, ents[j])>> \o rest.evs]

\* The callback CopyInsertEnts hands to Tx: [err, evs].
CopyCallbackNoStop(ents, d, isPreparer, fail) ==
    IF ~isPreparer THEN [err |-> "NotPreparer", evs |-> <<>>]
    ELSE IF fail.kind = "header" THEN [err |-> "HeaderErr", evs |-> <<>>]
    ELSE IF fail.kind = "prepare"
         THEN [err |-> "PrepareErr", evs |-> <<Ev("Prepare", d, FALSE, 0)>>]
    ELSE LET rows == CopyRows(ents, 1, d, fail)
             pre == <<Ev("Prepare", d, TRUE, 0)>> \o rows.evs
         IN IF fail.kind = "term"
            THEN [err |-> "TermErr", evs |-> pre \o <<Ev("Term", d, FALSE, 0)>>]
            ELSE [err |-> rows.err, evs |-> pre \o <<Ev("Term", d, TRUE, 0)>>]

CopyCallback(ents, d, isPreparer, fail) ==
    IF ~isPreparer THEN [err |-> "NotPreparer", evs |-> <<>>]
    ELSE IF fail.kind = "header" THEN [err |-> "HeaderErr", evs |-> <<>>]
    ELSE IF fail.kind = "prepare"
         THEN [err |-> "PrepareErr", evs |-> <<Ev("Prepare", d, FALSE, 0)>>]
    ELSE LET rows == CopyRows(ents, 1, d, fail)
             pre == <<Ev("Prepare", d, TRUE, 0)>> \o rows.evs
         IN IF rows.err # Nil THEN [err |-> rows.err, evs |-> pre]
            ELSE IF fail.kind = "term"
            THEN [err |-> "TermErr", evs |-> pre \o <<Ev("Term", d, FALSE, 0)>>]
            ELSE [err |-> Nil, evs |-> pre \o <<Ev("Term", d, TRUE, 0)>>]

\* PostgresAdapter.CopyInsertEnts on the handle db, at depth d: [ret, evs, commit].
CopyInsertEntsOn(db, ents, d, isPreparer, fail, beginOk, finOk) ==
    IF Len(ents) = 0 THEN [ret |-> Nil, evs |-> <<>>, commit |-> FALSE]
    ELSE LET en == TxEnter(db, d, beginOk)
         IN IF en.err # Nil THEN [ret |-> en.err, evs |-> en.evs, commit |-> en.commit]
            ELSE LET cb == CopyCallback(ents, d, isPreparer, fail)
                     fin == TxFinish(en.commit, d, cb.err, finOk)
                 IN [ret |-> fin.ret,
                     evs |-> en.evs \o cb.evs \o fin.evs,
                     commit |-> en.commit]

\* --------------------------------------------------- the adapter's actions
UnchangedIns == UNCHANGED <<ins, store, nextId, ent>>

Open(openOk, pingOk) ==
    /\ pc = "idle"
    /\ Len(opens) < MaxOpens
    /\ LET r == OpenAdapter(adapter, openOk, pingOk)
       IN /\ adapter' = [adapter EXCEPT !.db = r.db]
          /\ opens' = Append(opens, r.ret)
          /\ pools' = pools + (IF r.opened THEN 1 ELSE 0)
    /\ UNCHANGED <<pc, stack, trace, lastret, copy>>
    /\ UnchangedIns

\* A Tx call, from its entry to the invocation of its callback; on the root
\* adapter when no call is active, on the derived adapter inside a callback.
TxCall(beginOk) ==
    /\ pc \in {"idle", "running"}
    /\ Len(stack) < MaxDepth
    /\ CurDB # "LoggedNilTx"
    /\ LET d == Len(stack) + 1
           en == TxEnter(CurDB, d, beginOk)
       IN /\ trace' = trace \o en.evs
          /\ IF en.err # Nil
             THEN /\ stack' = stack
                  /\ lastret' = [depth |-> d, commit |-> en.commit,
                                 cberr |-> "notrun", ret |-> en.err]
                  /\ pc' = IF stack = <<>> THEN "done" ELSE pc
             ELSE /\ stack' = Append(stack, [commit |-> en.commit, adapter2 |-> en.adapter2])
                  /\ lastret' = lastret
                  /\ pc' = "running"
    /\ UNCHANGED <<adapter, opens, pools, copy>>
    /\ UnchangedIns

\* The callback of the innermost active Tx call returns err2, and the call
\* runs to its own return.
CbReturn(err2, finOk) ==
    /\ pc = "running"
    /\ stack # <<>>
    /\ LET d == Len(stack)
           fin == TxFinish(stack[d].commit, d, err2, finOk)
       IN /\ trace' = trace \o fin.evs
          /\ lastret' = [depth |-> d, commit |-> stack[d].commit,
                         cberr |-> err2, ret |-> fin.ret]
          /\ stack' = SubSeq(stack, 1, d - 1)
          /\ pc' = IF d = 1 THEN "done" ELSE "running"
    /\ UNCHANGED <<adapter, opens, pools, copy>>
    /\ UnchangedIns

TxOps == {"Begin", "Commit", "Rollback"}
FinOps == {"Commit", "Rollback"}
StepOps == {"Prepare", "Row", "Term"}

\* The driver's view: a transaction is active on the connection in use when
\* the root handle is inside one, or one was begun and has not been ended.
TxActive ==
    \/ TxOf(DBX(adapter)) # "nil"
    \/ \E i \in 1..Len(trace) :
          /\ trace[i].op = "Begin" /\ trace[i].ok
          /\ \A k \in (i + 1)..Len(trace) : trace[k].op \notin FinOps

\* A CopyInsertEnts call, whole: on the root adapter, or on the derived
\* adapter inside a callback. A handle without a connection is left out: what
\* Prepare does on it is decided by QueryLogger, and no bulk-load step is made.
\* copy.evs holds every driver call of the call, copy.intx whether a
\* transaction was active when the call was made.
CopyInsertEnts(ents, isPreparer, fail, beginOk, finOk) ==
    /\ pc \in {"idle", "running"}
    /\ CurDB \notin {"nil", "LoggedNilTx"}
    /\ LET d == Len(stack) + 1
           r == CopyInsertEntsOn(CurDB, ents, d, isPreparer, fail, beginOk, finOk)
       IN /\ trace' = trace \o SelectSeq(r.evs, LAMBDA e : e.op \in TxOps)
          /\ copy' = [called |-> TRUE, ents |-> ents, depth |-> d,
                      intx |-> TxActive, evs |-> r.evs, ret |-> r.ret,
                      commit |-> r.commit]
    /\ pc' = IF stack = <<>> THEN "done" ELSE pc
    /\ UNCHANGED <<adapter, opens, pools, stack, lastret>>
    /\ UnchangedIns

Init ==
    /\ adapter \in {NewPostgresAdapterFromDBX(h) : h \in Handles}
                   \cup {NewPostgresAdapter(u) : u \in URLs}
    /\ pc = "idle"
    /\ stack = <<>>
    /\ trace = <<>>
    /\ opens = <<>>
    /\ pools = 0
    /\ lastret = NoRet
    /\ copy = NoCopy
    /\ ins = NoCall
    /\ store = <<>>
    /\ nextId = 1
    /\ ent = NoCall

Next ==
    \/ \E beginOk \in BOOLEAN : TxCall(beginOk)
    \/ \E err2 \in {Nil, "CbErr"}, finOk \in BOOLEAN : CbReturn(err2, finOk)
    \/ \E ents \in EntLists(MaxCopyEnts), isPreparer \in BOOLEAN,
          beginOk \in BOOLEAN, finOk \in BOOLEAN :
          \E fail \in CopyFails(Len(ents)) :
             CopyInsertEnts(ents, isPreparer, fail, beginOk, finOk)

Spec == Init /\ [][Next]_vars

\* The adapter's Open calls alone.
NextOpen == \E openOk \in BOOLEAN, pingOk \in BOOLEAN : Open(openOk, pingOk)

SpecOpen == Init /\ [][NextOpen]_vars

\* ------------------------------------------------------------ inserts
\* The table: a sequence of rows [id, val] in insertion order; the store
\* gives each inserted row the next value of the serial. One insert call is
\* made on a table that holds some rows already.
\* One INSERT statement of the given value tuples: [store, next, ids], ids
\* the identifiers of the new rows in the order of the tuples. A statement
\* that fails inserts nothing.
ExecInsert(st, next, rows, ok) ==
    IF ok
    THEN [store |-> st \o [j \in 1..Len(rows) |-> [id |-> next + j - 1, val |-> rows[j]]],
          next |-> next + Len(rows),
          ids |-> [j \in 1..Len(rows) |-> next + j - 1]]
    ELSE [store |-> st, next |-> next, ids |-> <<>>]

\* Where an insert call fails, if anywhere: "header" (GetHeader), "vals"
\* (GetInsert of record i), "stmt" (statement number i), "scan" (the Scan of
\* the identifier returned for record i), "next" (rows.Next() ends the result
\* early, before record i, with rows.Err() set), "lastid" (LastInsertId).
InsFails(n) ==
    {NoFail}
      \cup {[kind |-> "header", i |-> 0]}
      \cup {[kind |-> k, i |-> i] : k \in {"vals", "stmt", "scan", "next"}, i \in 1..n}

\* PostgresAdapter.InsertEnt of a record with value val: [ret, err, id, store,
\* next, stmts]; id is the record's identifier after the call (0 before it).
AdapterInsertEntOn(val, hasID, fail, st, next) ==
    IF fail.kind = "header" THEN
        [ret |-> 0, err |-> "HeaderErr", id |-> 0, store |-> st, next |-> next, stmts |-> 0]
    ELSE IF fail.kind = "vals" THEN
        [ret |-> 0, err |-> "ValuesErr", id |-> 0, store |-> st, next |-> next, stmts |-> 0]
    ELSE LET x == ExecInsert(st, next, <<val>>, fail.kind # "stmt")
             eid == IF hasID THEN x.ids[1] ELSE 0
         IN IF fail.kind = "stmt" THEN
                [ret |-> 0, err |-> "StmtErr", id |-> 0, store |-> x.store,
                 next |-> x.next, stmts |-> 1]
            ELSE IF hasID /\ fail.kind = "scan" THEN
                [ret |-> 0, err |-> "ScanErr", id |-> 0, store |-> x.store,
                 next |-> x.next, stmts |-> 1]
            ELSE [ret |-> eid, err |-> Nil, id |-> IF hasID THEN eid ELSE 0,
                  store |-> x.store, next |-> x.next, stmts |-> 1]

\* The package-level InsertEnt. pgCheck: the driver is "postgres". The
\* identifier is scanned (or read from LastInsertId) into entId; the record is
\* given, and the call returns, eid, which nothing assigns.
PkgInsertEntOn(val, hasID, pgCheck, fail, st, next) ==
    IF fail.kind = "header" THEN
        [ret |-> 0, err |-> "HeaderErr", id |-> 0, store |-> st, next |-> next, stmts |-> 0]
    ELSE IF fail.kind = "vals" THEN
        [ret |-> 0, err |-> "ValuesErr", id |-> 0, store |-> st, next |-> next, stmts |-> 0]
    ELSE LET x == ExecInsert(st, next, <<val>>, fail.kind # "stmt")
             eid == 0
         IN IF fail.kind = "stmt" THEN
                [ret |-> 0, err |-> "StmtErr", id |-> 0, store |-> x.store,
                 next |-> x.next, stmts |-> 1]
            ELSE IF ~pgCheck /\ fail.kind = "lastid" THEN
                [ret |-> 0, err |-> "LastInsertIdErr", id |-> 0, store |-> x.store,
                 next |-> x.next, stmts |-> 1]
            ELSE [ret |-> eid, err |-> Nil, id |-> IF hasID THEN eid ELSE 0,
                  store |-> x.store, next |-> x.next, stmts |-> 1]

\* ------------------------------------------------------ MultiInsertEnts
ParamCeiling == 65536

Min(a, b) == IF a < b THEN a ELSE b

\* batchSize := 65536 / (len(header) + 1)
BatchSizeNoMargin(ncols) == (ParamCeiling \div (ncols + 1)) + 1

BatchSize(ncols) == ParamCeiling \div (ncols + 1)

\* The lengths a header can have here: those up to 65535, for which
\* batchSize >= 1 and the chunk loop advances.
HeaderLens == {0, 1, 21844, 32767, 65535}

\* batch := ents[i:min(i+batchSize, len(ents))], with i counted from 1.
BatchShort(ents, i, bs) == SubSeq(ents, i, Min(i + bs - 1, Len(ents)) - 1)

Batch(ents, i, bs) == SubSeq(ents, i, Min(i + bs - 1, Len(ents)))

\* The chunk loop from record i on. acc: [stmts, retids, err, store, next];
\* a statement is [rows, ok, returning]. The result adds done: the call
\* returned from inside the loop.
RECURSIVE MultiLoop(_, _, _, _, _, _)
MultiLoop(ents, i, bs, setid, fail, acc) ==
    IF i > Len(ents) THEN acc
    ELSE
      LET batch == Batch(ents, i, bs)
          \* vals, _ := GetInsert(d, header): a record whose values cannot be
          \* extracted contributes an empty tuple (0).
          rows == [j \in 1..Len(batch) |->
                     IF fail.kind = "vals" /\ fail.i = i + j - 1 THEN 0 ELSE batch[j]]
          c == Len(acc.stmts) + 1
          ok == ~(fail.kind = "stmt" /\ fail.i = c)
          x == ExecInsert(acc.store, acc.next, rows, ok)
          stmt == [rows |-> rows, ok |-> ok, returning |-> setid]
          ran == [acc EXCEPT !.stmts = Append(@, stmt), !.store = x.store, !.next = x.next]
          inbatch(k) == k >= i /\ k < i + Len(batch)
      IN IF setid
         THEN IF ~ok THEN [ran EXCEPT !.err = "StmtErr"]
              ELSE IF fail.kind = "scan" /\ inbatch(fail.i)
              THEN [ran EXCEPT !.err = "ScanErr",
                               !.retids = @ \o SubSeq(x.ids, 1, fail.i - i)]
              ELSE IF fail.kind = "next" /\ inbatch(fail.i)
              THEN MultiLoop(ents, i + bs, bs, setid, fail,
                             [ran EXCEPT !.retids = @ \o SubSeq(x.ids, 1, fail.i - i)])
              ELSE MultiLoop(ents, i + bs, bs, setid, fail,
                             [ran EXCEPT !.retids = @ \o x.ids])
         ELSE MultiLoop(ents, i + bs, bs, setid, fail,
                        [ran EXCEPT !.err = IF ok THEN Nil ELSE "StmtErr"])

\* PostgresAdapter.MultiInsertEnts: [stmts, retids, err, store, next]. ncols
\* is the length of the records' header; a header that cannot be derived is
\* empty, and its error is kept in err.
MultiInsertEntsOn(ents, ncols, setid, fail, st, next) ==
    IF Len(ents) = 0
    THEN [stmts |-> <<>>, retids |-> <<>>, err |-> Nil, store |-> st, next |-> next]
    ELSE LET hdrOk == fail.kind # "header"
             n == IF hdrOk THEN ncols ELSE 0
         IN MultiLoop(ents, 1, BatchSize(n), setid, fail,
                      [stmts |-> <<>>, retids |-> <<>>,
                       err |-> IF hdrOk THEN Nil ELSE "HeaderErr",
                       store |-> st, next |-> next])

\* ---------------------------------------------------- the insert actions
MaxEnts == 3   \* records handed to one MultiInsertEnts call
MaxPre == 2    \* rows the table holds before the call

UnchangedAdapter == UNCHANGED <<adapter, pc, stack, trace, opens, pools, lastret, copy, ent>>

AdapterInsertEnt(val, hasID, fail) ==
    /\ ins.op = "none"
    /\ LET r == AdapterInsertEntOn(val, hasID, fail, store, nextId)
       IN /\ store' = r.store
          /\ nextId' = r.next
          /\ ins' = [op |-> "AdapterInsertEnt", val |-> val, hasID |-> hasID,
                     fail |-> fail, ret |-> r.ret, err |-> r.err, id |-> r.id,
                     stmts |-> r.stmts, before |-> Len(store)]
    /\ UnchangedAdapter

InsertEnt(val, hasID, pgCheck, fail) ==
    /\ ins.op = "none"
    /\ LET r == PkgInsertEntOn(val, hasID, pgCheck, fail, store, nextId)
       IN /\ store' = r.store
          /\ nextId' = r.next
          /\ ins' = [op |-> "InsertEnt", val |-> val, hasID |-> hasID,
                     pgCheck |-> pgCheck, fail |-> fail, ret |-> r.ret, err |-> r.err, id |-> r.id,
                     stmts |-> r.stmts, before |-> Len(store)]
    /\ UnchangedAdapter

MultiInsertEnts(ents, ncols, setid, fail) ==
    /\ ins.op = "none"
    /\ LET r == MultiInsertEntsOn(ents, ncols, setid, fail, store, nextId)
       IN /\ store' = r.store
          /\ nextId' = r.next
          /\ ins' = [op |-> "MultiInsertEnts", ents |-> ents, ncols |-> ncols,
                     setid |-> setid, fail |-> fail, stmts |-> r.stmts,
                     retids |-> r.retids, err |-> r.err, before |-> Len(store)]
    /\ UnchangedAdapter

InitIns ==
    /\ adapter = NewPostgresAdapterFromDBX("DB")
    /\ pc = "idle"
    /\ stack = <<>>
    /\ trace = <<>>
    /\ opens = <<>>
    /\ pools = 0
    /\ lastret = NoRet
    /\ copy = NoCopy
    /\ ins = NoCall
    /\ \E k \in 0..MaxPre, gap \in 0..1 :
          /\ store = [j \in 1..k |-> [id |-> j + gap, val |-> 9]]
          /\ nextId = k + gap + 1
    /\ ent = NoCall

Vals == {1, 2}

NextIns ==
    \/ \E val \in Vals, hasID \in BOOLEAN :
          \E fail \in {f \in InsFails(1) : f.kind # "next"} :
             AdapterInsertEnt(val, hasID, fail)
    \/ \E val \in Vals, hasID \in BOOLEAN, pgCheck \in BOOLEAN :
          \E fail \in {f \in InsFails(1) : f.kind # "next"}
                         \cup {[kind |-> "lastid", i |-> 0]} :
             InsertEnt(val, hasID, pgCheck, fail)
    \/ \E ents \in EntLists(MaxEnts), ncols \in HeaderLens, setid \in BOOLEAN :
          \E fail \in InsFails(Len(ents)) :
             MultiInsertEnts(ents, ncols, setid, fail)

SpecIns == InitIns /\ [][NextIns]_vars

\* ------------------------------------------------------ Find and Update
\* A record of the table: [id, a, b, t], t the timestamp UpdateTimestamps
\* sets. Its header: the persistable columns without the identifier.
Header == <<"a", "b", "t">>
HeaderSet == {Header[i] : i \in 1..Len(Header)}
Now == 5

\* MapperCache.GetInsert: the record's values in header order.
GetInsert(rec) == [i \in 1..Len(Header) |-> rec[Header[i]]]

\* contains
contains(a, b) == \E i \in 1..Len(b) : b[i] = a

\* v.UpdateTimestamps(), for a record that has the capability
UpdateTimestamps(rec, hasTS) == IF hasTS THEN [rec EXCEPT !.t = Now] ELSE rec

\* UPDATE <table> SET colmap WHERE id = entId
ExecUpdate(st, colmap, entId) ==
    [i \in 1..Len(st) |->
       IF st[i].id = entId
       THEN [c \in DOMAIN st[i] |-> IF c \in DOMAIN colmap THEN colmap[c] ELSE st[i][c]]
       ELSE st[i]]

\* The package-level UpdateEnt: [err, stmts, store, rec]; a statement is
\* [set, where, ok]. An UPDATE without a SET clause is refused by the query
\* builder's ToSql and is not issued.
UpdateEntOn(rec, hasID, hasTS, columns, fail, st) ==
    LET rec1 == UpdateTimestamps(rec, hasTS)
        vals == GetInsert(rec1)
        kept == {i \in 1..Len(Header) : ~(Len(columns) > 0 /\ ~contains(Header[i], columns))}
        colmap == [c \in {Header[i] : i \in kept} |->
                     vals[CHOOSE i \in kept : Header[i] = c]]
        stmt == [set |-> colmap, where |-> rec1.id, ok |-> fail.kind # "stmt"]
    IN IF ~hasID THEN [err |-> "cannot get ID", stmts |-> <<>>, store |-> st, rec |-> rec1]
       ELSE IF fail.kind = "header" THEN
            [err |-> "HeaderErr", stmts |-> <<>>, store |-> st, rec |-> rec1]
       ELSE IF fail.kind = "vals" THEN
            [err |-> "ValuesErr", stmts |-> <<>>, store |-> st, rec |-> rec1]
       ELSE IF kept = {} THEN
            [err |-> "ToSqlErr", stmts |-> <<>>, store |-> st, rec |-> rec1]
       ELSE IF fail.kind = "stmt" THEN
            [err |-> "StmtErr", stmts |-> <<stmt>>, store |-> st, rec |-> rec1]
       ELSE [err |-> Nil, stmts |-> <<stmt>>,
             store |-> ExecUpdate(st, colmap, rec1.id), rec |-> rec1]

\* PostgresAdapter.UpdateEnt
AdapterUpdateEntOn(rec, hasID, hasTS, columns, fail, st) ==
    [err |-> Nil, stmts |-> <<>>, store |-> st, rec |-> rec]

\* The package-level FindEnt, through Get: [err, stmts, store, rec]. A query
\* that matches no row makes sqlx's Get return sql.ErrNoRows.
FindEntOn(rec, hasID, fail, st) ==
    LET q == [set |-> <<>>, where |-> rec.id, ok |-> fail.kind # "stmt"]
        hits == {i \in 1..Len(st) : st[i].id = rec.id}
    IN IF ~hasID THEN [err |-> "cannot get ID", stmts |-> <<>>, store |-> st, rec |-> rec]
       ELSE IF fail.kind = "stmt" THEN
            [err |-> "QueryErr", stmts |-> <<q>>, store |-> st, rec |-> rec]
       ELSE IF hits = {} THEN
            [err |-> "ErrNoRows", stmts |-> <<q>>, store |-> st, rec |-> rec]
       ELSE [err |-> Nil, stmts |-> <<q>>, store |-> st,
             rec |-> st[CHOOSE i \in hits : TRUE]]

\* PostgresAdapter.FindEnt
AdapterFindEntOn(rec, hasID, fail, st) ==
    [err |-> Nil, stmts |-> <<>>, store |-> st, rec |-> rec]

\* What is kept of a call: its inputs, the table before it, its result and
\* the record after it.
EntCall(op, rec, hasID, hasTS, columns, fail, r) ==
    [op |-> op, rec |-> rec, hasID |-> hasID, hasTS |-> hasTS,
     columns |-> columns, fail |-> fail, err |-> r.err,
     stmts |-> r.stmts, out |-> r.rec, pre |-> store]

UnchangedEnt == UNCHANGED <<adapter, pc, stack, trace, opens, pools, lastret, copy, ins, nextId>>

FindEnt(rec, hasID, fail) ==
    /\ ent.op = "none"
    /\ LET r == FindEntOn(rec, hasID, fail, store)
       IN /\ store' = r.store
          /\ ent' = EntCall("FindEnt", rec, hasID, FALSE, <<>>, fail, r)
    /\ UnchangedEnt

AdapterFindEnt(rec, hasID, fail) ==
    /\ ent.op = "none"
    /\ LET r == AdapterFindEntOn(rec, hasID, fail, store)
       IN /\ store' = r.store
          /\ ent' = EntCall("AdapterFindEnt", rec, hasID, FALSE, <<>>, fail, r)
    /\ UnchangedEnt

UpdateEnt(rec, hasID, hasTS, columns, fail) ==
    /\ ent.op = "none"
    /\ LET r == UpdateEntOn(rec, hasID, hasTS, columns, fail, store)
       IN /\ store' = r.store
          /\ ent' = EntCall("UpdateEnt", rec, hasID, hasTS, columns, fail, r)
    /\ UnchangedEnt

AdapterUpdateEnt(rec, hasID, hasTS, columns, fail) ==
    /\ ent.op = "none"
    /\ LET r == AdapterUpdateEntOn(rec, hasID, hasTS, columns, fail, store)
       IN /\ store' = r.store
          /\ ent' = EntCall("AdapterUpdateEnt", rec, hasID, hasTS, columns, fail, r)
    /\ UnchangedEnt

Bits == {0, 1}
Recs(ids) == {[id |-> i, a |-> a, b |-> b, t |-> 0] : i \in ids, a \in Bits, b \in Bits}
ColumnLists == {<<>>, <<"a">>, <<"b", "a">>, <<"t">>, <<"zz">>, <<"a", "zz">>}
EntFails == {NoFail} \cup {[kind |-> k, i |-> 0] : k \in {"header", "vals", "stmt"}}

InitEnt ==
    /\ adapter = NewPostgresAdapterFromDBX("DB")
    /\ pc = "idle"
    /\ stack = <<>>
    /\ trace = <<>>
    /\ opens = <<>>
    /\ pools = 0
    /\ lastret = NoRet
    /\ copy = NoCopy
    /\ ins = NoCall
    /\ \E k \in 0..MaxPre :
          /\ store \in [1..k -> Recs(1..k)]
          /\ \A j \in 1..k : store[j].id = j
          /\ nextId = k + 1
    /\ ent = NoCall

NextEnt ==
    \/ \E rec \in Recs(0..(MaxPre + 1)), hasID \in BOOLEAN, fail \in EntFails :
          FindEnt(rec, hasID, fail)
    \/ \E rec \in Recs(0..(MaxPre + 1)), hasID \in BOOLEAN, fail \in EntFails :
          AdapterFindEnt(rec, hasID, fail)
    \/ \E rec \in Recs(0..(MaxPre + 1)), hasID \in BOOLEAN, hasTS \in BOOLEAN,
          columns \in ColumnLists, fail \in EntFails :
          UpdateEnt(rec, hasID, hasTS, columns, fail)
    \/ \E rec \in Recs(0..(MaxPre + 1)), hasID \in BOOLEAN, hasTS \in BOOLEAN,
          columns \in ColumnLists, fail \in EntFails :
          AdapterUpdateEnt(rec, hasID, hasTS, columns, fail)

SpecEnt == InitEnt /\ [][NextEnt]_vars

\* ------------------------------------------------- properties of Spec
Idx(op) == {i \in 1..Len(trace) : trace[i].op = op}
IdxIn(ops) == {i \in 1..Len(trace) : trace[i].op \in ops}

\* C1: nested Tx calls flatten. No call made on a derived adapter (depth > 1)
\* and no call made on a handle that is already inside a transaction begins,
\* commits or rolls back; no Commit or Rollback is made while a callback is
\* running; and when the outermost call is made on the pool and its Begin
\* succeeds, exactly one transaction is begun and, once that call has
\* returned, exactly one Commit or Rollback has been made, by that call:
\* Commit iff its own callback returned nil, Rollback otherwise.
TxFlattens ==
    /\ \A i \in IdxIn(TxOps) : trace[i].depth = 1
    /\ TxOf(DBX(adapter)) # "nil" => IdxIn(TxOps) = {}
    /\ Cardinality(Idx("Begin")) <= 1
    /\ stack # <<>> => IdxIn(FinOps) = {}
    /\ (stack # <<>> /\ DBX(adapter) = "DB") =>
          (Idx("Begin") = {1} /\ trace[1].ok /\ stack[1].commit
            /\ \A k \in 2..Len(stack) : ~stack[k].commit)
    /\ (pc = "done" /\ DBX(adapter) = "DB" /\ lastret.depth = 1
          /\ lastret.cberr # "notrun") =>
          /\ Cardinality(Idx("Begin")) = 1
          /\ Cardinality(IdxIn(FinOps)) = 1
          /\ trace[Len(trace)].op = (IF lastret.cberr = Nil THEN "Commit" ELSE "Rollback")
          /\ trace[Len(trace)].depth = 1

\* C1 witness: on a pool-backed adapter, a Tx call nested two deep inside the
\* outermost call has returned its callback's failure, and the only driver
\* call made so far is the outermost call's Begin.
TxFlattensWitness ==
    /\ DBX(adapter) = "DB"
    /\ Len(stack) = 2
    /\ lastret.depth = 3
    /\ lastret.cberr = "CbErr"
    /\ Len(trace) = 1

\* C2: the error a Tx call returns. A failed Begin is the last driver call,
\* no callback is invoked after it and the call returns the Begin error. A
\* call that owns the transaction returns the rollback error when its callback
\* failed and the rollback failed, the callback's error when the rollback
\* succeeded, and the result of Commit when the callback succeeded. A reused
\* call returns exactly what its callback returned.
TxReturns ==
    /\ \A i \in Idx("Begin") : ~trace[i].ok =>
          /\ i = Len(trace)
          /\ stack = <<>>
          /\ (lastret.cberr = "notrun" /\ lastret.ret = "BeginErr")
               \/ (copy.called /\ copy.ret = "BeginErr" /\ copy.evs = <<trace[i]>>)
    /\ lastret.cberr = "notrun" =>
          (trace # <<>> /\ trace[Len(trace)].op = "Begin" /\ ~trace[Len(trace)].ok)
    /\ (lastret.depth > 0 /\ lastret.cberr # "notrun") =>
          IF lastret.commit
          THEN LET last == trace[Len(trace)]
               IN /\ lastret.depth = 1
                  /\ lastret.cberr # Nil =>
                        /\ last.op = "Rollback"
                        /\ lastret.ret = (IF last.ok THEN lastret.cberr ELSE "RollbackErr")
                  /\ lastret.cberr = Nil =>
                        /\ last.op = "Commit"
                        /\ lastret.ret = (IF last.ok THEN Nil ELSE "CommitErr")
          ELSE lastret.ret = lastret.cberr

\* C2 witness: the outermost call's callback failed and the rollback failed.
TxReturnsWitness ==
    /\ pc = "done"
    /\ lastret.commit
    /\ lastret.cberr = "CbErr"
    /\ trace[Len(trace)].op = "Rollback"
    /\ ~trace[Len(trace)].ok

\* The driver calls of the last CopyInsertEnts call, and its bulk-load steps.
CopyEvs == IF copy.called THEN copy.evs ELSE <<>>
CopyStepIdx == {i \in 1..Len(CopyEvs) : CopyEvs[i].op \in StepOps}
CopyRowIdx == {i \in 1..Len(CopyEvs) : CopyEvs[i].op = "Row"}

\* A transaction is active when the call makes its driver call number i.
CopyInTxAt(i) ==
    \/ /\ copy.intx
       /\ \A k \in 1..(i - 1) : CopyEvs[k].op \notin FinOps
    \/ \E j \in 1..(i - 1) :
          /\ CopyEvs[j].op = "Begin" /\ CopyEvs[j].ok
          /\ \A k \in (j + 1)..(i - 1) : CopyEvs[k].op \notin FinOps

\* C9: CopyInsertEnts. With no records: nil, and no driver call at all. With
\* records: every bulk-load step is made while a transaction is active; the
\* steps are Prepare, then the records' rows in input order, then one
\* terminator after the last record's row; a failed step is the last step; the
\* call returns nil only when the whole stream was sent and every step
\* succeeded; when a step failed, a transaction the call owns is rolled back
\* and not committed and the call returns an error (the step's, when the
\* rollback succeeds); a Commit is made only after a successful terminator.
CopyStreams ==
    copy.called =>
      LET n == Len(copy.ents)
          evs == CopyEvs
          last == Len(evs)
          steps == CopyStepIdx
          rows == CopyRowIdx
          failed == {i \in steps : ~evs[i].ok}
          complete == /\ Cardinality(steps) = n + 2
                      /\ failed = {}
      IN /\ n = 0 => (copy.ret = Nil /\ evs = <<>>)
         /\ \A i \in steps : CopyInTxAt(i)
         /\ \A i \in 1..last : evs[i].depth = copy.depth
         /\ steps # {} =>
               LET first == CHOOSE i \in steps : \A j \in steps : i <= j
               IN /\ evs[first].op = "Prepare"
                  /\ \A i \in steps : i - first <= n + 1
                  /\ \A i \in steps :
                        evs[i].op = (IF i = first THEN "Prepare"
                                     ELSE IF i - first <= n THEN "Row" ELSE "Term")
                  /\ \A i \in rows : evs[i].val = copy.ents[i - first]
                  /\ \A i \in steps : i # first => (i - 1) \in steps
         /\ \A i \in failed : \A j \in steps : j <= i
         /\ copy.ret = Nil => (n = 0 \/ complete)
         /\ failed # {} =>
               /\ copy.ret # Nil
               /\ \A i \in 1..last : evs[i].op # "Commit"
               /\ copy.commit =>
                     /\ evs[last].op = "Rollback"
                     /\ evs[last].ok => copy.ret \in {"PrepareErr", "ExecErr", "TermErr"}
         /\ \A i \in 1..last : evs[i].op = "Commit" =>
               (complete /\ i = last /\ evs[i - 1].op = "Term" /\ evs[i - 1].ok)
         /\ (copy.commit /\ complete) => evs[last].op = "Commit"
         /\ \A i \in 1..last : evs[i].op \in TxOps => copy.commit

\* C9 witness: a call made on the pool with two records whose second row
\* fails: it owns the transaction and has rolled it back.
CopyStreamsWitness ==
    /\ copy.called
    /\ Len(copy.ents) = 2
    /\ copy.commit
    /\ Cardinality(CopyRowIdx) = 2
    /\ copy.ret = "ExecErr"
    /\ CopyEvs[Len(CopyEvs)].op = "Rollback"

\* ---------------------------------------------- properties of SpecIns
IsMulti == ins.op = "MultiInsertEnts"

RECURSIVE Flatten(_)
Flatten(ss) == IF ss = <<>> THEN <<>> ELSE Head(ss).rows \o Flatten(Tail(ss))

\* The header length MultiInsertEnts computed its chunk size from.
ColumnCount == IF ins.fail.kind = "header" THEN 0 ELSE ins.ncols

\* C3: MultiInsertEnts on N records with a header of k columns, when nothing
\* fails: with C = 65536 / (k + 1), exactly ceil(N / C) statements are issued
\* (none, an empty result and nil for N = 0); the chunks are consecutive
\* slices of the input, each full but the last, that cover every record
\* once; with the identifier capability the result holds N identifiers, the
\* i-th being the identifier of the row stored for the i-th record.
MultiInsertChunks ==
    (IsMulti /\ ins.fail = NoFail) =>
      LET n == Len(ins.ents)
          c == ParamCeiling \div (ins.ncols + 1)
          m == Len(ins.stmts)
      IN /\ ins.err = Nil
         /\ m = (n + c - 1) \div c
         /\ n = 0 => (ins.stmts = <<>> /\ ins.retids = <<>>)
         /\ Flatten(ins.stmts) = ins.ents
         /\ \A j \in 1..m : Len(ins.stmts[j].rows) >= 1
         /\ \A j \in 1..(m - 1) : Len(ins.stmts[j].rows) = c
         /\ Len(store) = ins.before + n
         /\ ins.setid =>
               /\ Len(ins.retids) = n
               /\ \A i \in 1..n :
                     store[ins.before + i] = [id |-> ins.retids[i], val |-> ins.ents[i]]

\* C3 witness: three records with the identifier capability went out in two
\* statements into a table that held rows already.
MultiInsertChunksWitness ==
    /\ IsMulti
    /\ ins.fail = NoFail
    /\ ins.setid
    /\ Len(ins.ents) = 3
    /\ Len(ins.stmts) = 2
    /\ ins.before > 0
    /\ Len(ins.retids) = 3

\* C4 as claimed: chunk_size * (column_count + 1) is strictly less than 65536
\* for every chunk MultiInsertEnts builds.
ChunkParamsBelowCeiling ==
    IsMulti =>
      \A j \in 1..Len(ins.stmts) :
         Len(ins.stmts[j].rows) * (ColumnCount + 1) < ParamCeiling

\* C4 amended: chunk_size * (column_count + 1) never exceeds 65536, so that
\* the chunk_size * column_count values a statement binds number fewer than
\* 65536.
ChunkParamsWithinCeiling ==
    IsMulti =>
      \A j \in 1..Len(ins.stmts) :
         /\ Len(ins.stmts[j].rows) * (ColumnCount + 1) <= ParamCeiling
         /\ Len(ins.stmts[j].rows) * ColumnCount < ParamCeiling

\* C4 witness: a full chunk for which the product is exactly 65536.
ChunkParamsWitness ==
    /\ IsMulti
    /\ Len(ins.ents) > 2
    /\ \E j \in 1..Len(ins.stmts) :
          /\ Len(ins.stmts[j].rows) = 2
          /\ Len(ins.stmts[j].rows) * (ColumnCount + 1) = ParamCeiling

\* The failure the call was given did happen during the call.
InsFailed ==
    CASE ins.op = "none" -> FALSE
      [] ins.op = "AdapterInsertEnt" ->
           ins.fail.kind \in {"header", "vals", "stmt"} \/ (ins.fail.kind = "scan" /\ ins.hasID)
      [] ins.op = "InsertEnt" ->
           \/ ins.fail.kind \in {"header", "vals", "stmt"}
           \/ (ins.fail.kind = "scan" /\ ins.pgCheck)
           \/ (ins.fail.kind = "lastid" /\ ~ins.pgCheck)
      [] ins.op = "MultiInsertEnts" ->
           /\ Len(ins.ents) > 0
           /\ \/ ins.fail.kind \in {"header", "vals"}
              \/ (ins.fail.kind = "stmt" /\ \E j \in 1..Len(ins.stmts) : ~ins.stmts[j].ok)
              \/ (ins.fail.kind = "scan" /\ ins.setid)

\* C5: an insert call during which header derivation, value extraction, a
\* statement or the scan of a returned identifier failed returns an error.
InsertErrorsReturned == InsFailed => ins.err # Nil

\* C6: a successful single insert of a record with the identifier capability
\* returns the identifier the store gave the new row and leaves it in the
\* record; without the capability it returns zero and assigns nothing.
InsertReturnsGeneratedId ==
    (ins.op \in {"AdapterInsertEnt", "InsertEnt"} /\ ins.err = Nil) =>
      /\ Len(store) = ins.before + 1
      /\ store[Len(store)].val = ins.val
      /\ IF ins.hasID
         THEN ins.ret = store[Len(store)].id /\ ins.id = ins.ret
         ELSE ins.ret = 0 /\ ins.id = 0

\* ---------------------------------------------- properties of SpecEnt
\* C7: Find on a record whose identifier matches no row returns the NotFound
\* error (sql.ErrNoRows), and Find on a record without the identifier
\* capability returns an error without issuing a query, at every Find entry
\* point.
FindReportsAbsence ==
    ent.op \in {"FindEnt", "AdapterFindEnt"} =>
      /\ ~ent.hasID => (ent.err # Nil /\ ent.stmts = <<>>)
      /\ (ent.hasID /\ ent.fail.kind # "stmt"
            /\ \A i \in 1..Len(ent.pre) : ent.pre[i].id # ent.rec.id) =>
            ent.err = "ErrNoRows"

\* C8: UpdateEnt on a record with the identifier capability, when nothing
\* fails, issues one UPDATE of the row with the record's id whose SET clause
\* holds exactly the header columns named in the column list, or every header
\* column when the list is empty, each with the record's value; the columns
\* not in it, and every other row, are unchanged in the store.
UpdateSetsListedColumns ==
    (ent.op \in {"UpdateEnt", "AdapterUpdateEnt"} /\ ent.hasID /\ ent.fail = NoFail) =>
      LET want == IF ent.columns = <<>> THEN HeaderSet
                  ELSE {c \in HeaderSet : contains(c, ent.columns)}
      IN /\ Len(store) = Len(ent.pre)
         /\ want = {} => store = ent.pre
         /\ want # {} =>
               /\ Len(ent.stmts) = 1
               /\ DOMAIN ent.stmts[1].set = want
               /\ ent.stmts[1].where = ent.rec.id
               /\ \A c \in want : ent.stmts[1].set[c] = ent.out[c]
               /\ \A i \in 1..Len(store) :
                     IF ent.pre[i].id = ent.rec.id
                     THEN \A c \in DOMAIN store[i] :
                            store[i][c] = IF c \in want THEN ent.out[c] ELSE ent.pre[i][c]
                     ELSE store[i] = ent.pre[i]

\* C10: whenever the most recent Open returned nil, the adapter holds a
\* usable connection handle: DBX() is not nil.
OpenLeavesUsableHandle ==
    (opens # <<>> /\ opens[Len(opens)] = Nil) => DBX(adapter) # "nil"
====
